---- MODULE Spec2Model ----
(***************************************************************************)
(* Model of src/main.py: the VisionSystem session (camera initialisation,  *)
(* the process_frame loop with its Saved-ID Registry, cleanup) and main(). *)
(***************************************************************************)
EXTENDS Integers, Sequences, FiniteSets, TLC

\* ------------------------------------------------------------------ bounds
\* Largest number of boxes the detector reports in one frame.
MaxDets == 2

\* The count of consecutive failed reads is followed up to this value.
MaxFailRun == 2

\* Detector coordinates are binary fractions of a pixel with this many
\* fraction bits.
CoordBits == 1

\* ------------------------------------------------------- program constants
\* Side of the square working resolution the frame is resized to (line 78)
\* and the divisor of the scale factors (lines 82-83).
WorkingRes == 640

\* ord('q'), the stop key of line 108.
KeyQ == 113

\* cv2.waitKey returns -1 when no key event is pending.
NoKey == -1

\* Key codes the window can deliver: none, 'q', and one other key ('a').
Keys == {NoKey, KeyQ, 97}

\* The label -> colour table of __init__ (BGR triples).
colors ==
    ("OK" :> <<0, 255, 0>>) @@ ("PODRE" :> <<255, 0, 0>>) @@
    ("PEDRA" :> <<0, 0, 255>>) @@ ("PEDRA-NA-BATATA" :> <<0, 0, 255>>) @@
    ("BATATA-COM-PEDRA" :> <<0, 0, 255>>)

\* self.model.names: the class labels the detector can report; "OUTRO" stands
\* for a label the colour table does not know.
Names == DOMAIN colors \cup {"OUTRO"}

\* Tracking identifiers the detector assigns.
TrackIds == {7, 12}

\* ------------------------------------------------------- detector results
SeqsUpTo(S, n) == UNION {[1..k -> S] : k \in 0..n}

\* A tracker never gives one id to two boxes of the same frame.
DistinctIds(ids) ==
    \A a, b \in 1..Len(ids) : a # b => ids[a] # ids[b]

\* results[0].boxes of model.track: boxes.id is None (has_id = FALSE) when the
\* tracker reports no active track, else one id per box; boxes.cls is the
\* class label of each box.
DetectorOutputs ==
    UNION {{[has_id |-> TRUE, id |-> ids, cls |-> c] : c \in [1..Len(ids) -> Names]} :
              ids \in {s \in SeqsUpTo(TrackIds, MaxDets) : DistinctIds(s)}}
    \cup {[has_id |-> FALSE, id |-> <<>>, cls |-> c] : c \in SeqsUpTo(Names, MaxDets)}

NoResults == [has_id |-> FALSE, id |-> <<>>, cls |-> <<>>]

\* ------------------------------------------------------------------ state
VARIABLES
    pc,                  \* position of main(): enter, main, the loop, cleanup, stopped
    camera,              \* self.camera: None, unopened, opened, released
    saved_stone_ids,     \* self.saved_stone_ids, the Saved-ID Registry
    key_event,           \* key event pending in the window's queue
    ret,                 \* ret of the last camera.read()
    results,             \* results[0].boxes of the current iteration
    idx,                 \* position of the for loop in the zipped lists
    frame_com_desenhos,  \* drawings made on the frame copy, in drawing order
    snapshots,           \* save_stone_image calls of the current iteration
    displayed,           \* cv2.imshow was reached in the current iteration
    detected,            \* model.track was called in the current iteration
    key,                 \* code returned by the last cv2.waitKey
    regStart,            \* registry when the current iteration started
    tick,                \* how the last finished iteration ended
    iteration,           \* parity of the number of finished iterations
    failRun,             \* failed reads in a row before now (up to MaxFailRun)
    errAt,               \* where the exception struck that ended the last iteration
    flaggedPrev,         \* ids reported with a flagged class in earlier iterations
    reached,             \* ids whose flagged instance reached the test of line 103
    snapCount,           \* per id, number of save_stone_image calls (saturates at 2)
    init_outcome,        \* how init_camera ended
    calls,               \* number of calls of each operation of the session
    scen,                \* observer of the scenario of the four frames
    shape,               \* frame.shape[:2] = (original_h, original_w) of line 77
    box,                 \* one box of boxes.xyxy, in units of 1 / CoordDen pixel
    xyxy                 \* (x1, y1, x2, y2) of line 94

vars ==
    <<pc, camera, saved_stone_ids, key_event, ret, results, idx,
      frame_com_desenhos, snapshots, displayed, detected, key, regStart, tick,
      iteration, failRun, errAt, flaggedPrev, reached, snapCount, init_outcome, calls,
      scen, shape, box, xyxy>>

\* The locals of the rescaling of line 94.
geom == <<shape, box, xyxy>>

\* Positions inside process_frame's while loop (the RUNNING state).
LoopPcs == {"read", "track", "for", "show", "poll"}

SessionState ==
    CASE pc \in {"enter", "main"} -> "INITIALIZING"
      [] pc \in LoopPcs -> "RUNNING"
      [] pc = "cleanup" -> "STOPPING"
      [] OTHER -> "STOPPED"

\* ------------------------------------------------------- pure operations
\* Mutant: a class that is no defect class is tested as one.
IsFlagged_WithPodre(label) ==
    label = "PEDRA" \/ label = "PEDRA-NA-BATATA" \/ label = "BATATA-COM-PEDRA"
    \/ label = "PODRE"

\* Mutant: only the first of the three labels is tested.
IsFlagged_OnlyPedra(label) ==
    label = "PEDRA"

\* The class test of line 103.
IsFlagged(label) ==
    label = "PEDRA" \/ label = "PEDRA-NA-BATATA" \/ label = "BATATA-COM-PEDRA"

\* self.colors.get(label, (0, 255, 0)) of line 97.
ColorOf(label) ==
    IF label \in DOMAIN colors THEN colors[label] ELSE <<0, 255, 0>>

\* Mutant: only instances of a flagged class are drawn.
Annotate_OnlyFlagged(drawn, pos, label) ==
    IF IsFlagged(label)
    THEN Append(drawn, [pos |-> pos, label |-> label, color |-> ColorOf(label)])
    ELSE drawn

\* Lines 96-101: the rectangle and the label text of the instance at
\* position pos are drawn on the copy, in the colour of its class; no
\* condition guards the two calls.
Annotate(drawn, pos, label) ==
    Append(drawn, [pos |-> pos, label |-> label, color |-> ColorOf(label)])

\* Mutant: the registry is not consulted.
ShouldSave_NoDedup(label, track_id, saved) ==
    label = "PEDRA" \/ label = "PEDRA-NA-BATATA" \/ label = "BATATA-COM-PEDRA"

\* The whole condition of line 103.
ShouldSave(label, track_id, saved) ==
    IsFlagged(label) /\ track_id \notin saved

\* Mutant: the registry keeps only the id of the last snapshot.
RegistryAfterSave_Replace(saved, track_id, written) ==
    {track_id}

\* Mutant: the id is recorded only when the file was written.
RegistryAfterSave_OnlyWritten(saved, track_id, written) ==
    IF written THEN saved \cup {track_id} ELSE saved

\* Lines 104-105: the id is added after save_stone_image returned, whatever
\* happened inside it (save_stone_image swallows its own failures).
RegistryAfterSave(saved, track_id, written) ==
    saved \cup {track_id}

\* Mutant: a frame without active tracks is not displayed; the loop
\* continues with the next read.
PcAfterTrack_SkipsDisplay(res) ==
    IF res.has_id /\ Len(res.id) > 0 THEN "for" ELSE "read"

\* Lines 87-107: the instance loop is entered only when boxes.id is not None
\* and the zip of line 93 has an element; otherwise the next statement is
\* the display of line 107.
PcAfterTrack(res) ==
    IF res.has_id /\ Len(res.id) > 0 THEN "for" ELSE "show"

\* Mutant: the snapshot is taken before the box of the instance is drawn.
SnapshotImage_BeforeDraw(drawn) ==
    SubSeq(drawn, 1, Len(drawn) - 1)

\* Line 104: the image handed to save_stone_image is frame_com_desenhos
\* itself, with everything lines 100-101 have drawn on it so far, the box of
\* the current instance included.
SnapshotImage(drawn) ==
    drawn

\* Mutant: the handler puts the registry back to what it was when the
\* iteration began.
RegistryAfterError_RolledBack(saved, start) ==
    start

\* Lines 111-113: the handler logs and continues; the insertions the
\* iteration has made so far stay.
RegistryAfterError(saved, start) ==
    saved

\* Mutant: save_stone_image lets the exception of a failed write out.
SavePropagates_Reraise(written) ==
    ~written

\* Lines 52 and 65-66: save_stone_image catches every exception of the
\* directory creation and of the write, so none reaches its caller.
SavePropagates(written) ==
    FALSE

\* Mutant: the result of the read is not tested.
PcAfterRead_NoTest(r) ==
    "track"

\* Lines 73-75: a failed read continues the loop, a good one goes on.
PcAfterRead(r) ==
    IF r THEN "track" ELSE "read"

\* Mutant: the exception leaves the loop and the with block.
PcAfterError_Escapes ==
    "cleanup"

\* Lines 111-113: the except clause continues the loop.
PcAfterError ==
    "read"

\* Mutant: any key breaks the loop.
KeyBreaks_AnyKey(code) ==
    code # NoKey

\* Line 108: cv2.waitKey(1) & 0xFF == ord('q').
KeyBreaks(code) ==
    (code % 256) = KeyQ

\* Mutant: isOpened() is not asked.
CameraUsable_NotNone(cam) ==
    cam # "None"

\* Line 135: vision_system.camera and vision_system.camera.isOpened().
CameraUsable(cam) ==
    cam = "opened"

\* Mutant: release is called whatever the camera is.
ReleaseNeeded_Always(cam) ==
    TRUE

\* Line 118: self.camera and self.camera.isOpened().
ReleaseNeeded(cam) ==
    cam = "opened"

\* ------------------------------------------------------------ rescaling
\* A detector coordinate n stands for n / CoordDen pixels.
CoordDen == 2 ^ CoordBits

\* int() of a quotient num / den with den > 0: truncation toward zero.
IntTrunc(num, den) ==
    IF num >= 0 THEN num \div den ELSE -((-num) \div den)

\* Lines 82-83 and 94: int(box[k] * (dim / 640)) for a coordinate of
\* n / CoordDen pixels and the frame dimension dim of its axis.
ScaleCoord(n, dim) ==
    IntTrunc(n * dim, CoordDen * WorkingRes)

\* Mutant: the height scales x and the width scales y.
ScaleBox_SwappedAxes(b, sh) ==
    <<ScaleCoord(b[1], sh[1]), ScaleCoord(b[2], sh[2]),
      ScaleCoord(b[3], sh[1]), ScaleCoord(b[4], sh[2])>>

\* Line 94 with scale_x = original_w / 640 and scale_y = original_h / 640,
\* sh being (original_h, original_w).
ScaleBox(b, sh) ==
    <<ScaleCoord(b[1], sh[2]), ScaleCoord(b[2], sh[1]),
      ScaleCoord(b[3], sh[2]), ScaleCoord(b[4], sh[1])>>

\* Frame sizes (height, width) the camera can deliver: the requested
\* 1980x1080 of line 25 and two it may fall back to.
FrameShapes == {<<1080, 1980>>, <<720, 1280>>, <<480, 640>>}

\* Detector coordinates tried, in units of 1 / CoordDen pixel: on, inside
\* and slightly outside the working square.
CoordValues ==
    {-CoordDen - 1, -1, 0, 1, 427, WorkingRes * CoordDen - 1,
     WorkingRes * CoordDen, (WorkingRes + 3) * CoordDen}

\* The Flagged-Class Set: the labels that warrant a snapshot.
FlaggedClassSet == {"PEDRA", "PEDRA-NA-BATATA", "BATATA-COM-PEDRA"}

\* Ids a detector result reports with a class of the Flagged-Class Set.
FlaggedIds(res) ==
    {res.id[k] : k \in {j \in 1..Len(res.id) : res.cls[j] \in FlaggedClassSet}}

Bump(c, op) == [c EXCEPT ![op] = IF @ < 2 THEN @ + 1 ELSE @]

\* --------------------------------------------------- scenario observer
\* The four frames of the scenario: id 7 PEDRA twice, id 12 OK, id 12
\* BATATA-COM-PEDRA.
Scenario ==
    << [has_id |-> TRUE, id |-> <<7>>, cls |-> <<"PEDRA">>],
       [has_id |-> TRUE, id |-> <<7>>, cls |-> <<"PEDRA">>],
       [has_id |-> TRUE, id |-> <<12>>, cls |-> <<"OK">>],
       [has_id |-> TRUE, id |-> <<12>>, cls |-> <<"BATATA-COM-PEDRA">>] >>

\* The observer follows the successfully displayed frames from the start of
\* the loop while they are the frames of the scenario, logging for each the
\* ids snapshotted in it and the registry after it.
ScenAfterFrame(s, res, snaps, reg) ==
    IF ~s.on \/ Len(s.log) = Len(Scenario) THEN s
    ELSE IF res = Scenario[Len(s.log) + 1]
         THEN [on |-> TRUE,
               log |-> Append(s.log, [snaps |-> {snaps[k].track_id : k \in 1..Len(snaps)},
                                      reg |-> reg])]
         ELSE [on |-> FALSE, log |-> <<>>]

ScenOff == [on |-> FALSE, log |-> <<>>]

\* ------------------------------------------------------------------ Init
\* The state after VisionSystem.__init__ (lines 11-28), before __enter__.
Init ==
    /\ pc = "enter"
    /\ camera = "None"
    /\ saved_stone_ids = {}
    /\ key_event = NoKey
    /\ ret = FALSE
    /\ results = NoResults
    /\ idx = 0
    /\ frame_com_desenhos = <<>>
    /\ snapshots = <<>>
    /\ displayed = FALSE
    /\ detected = FALSE
    /\ key = NoKey
    /\ regStart = {}
    /\ tick = "none"
    /\ iteration = 0
    /\ failRun = 0
    /\ errAt = "none"
    /\ flaggedPrev = {}
    /\ reached = {}
    /\ snapCount = [t \in TrackIds |-> 0]
    /\ init_outcome = "pending"
    /\ calls = [init_camera |-> 0, process_frame |-> 0, cleanup |-> 0, release |-> 0]
    /\ scen = [on |-> TRUE, log |-> <<>>]
    /\ shape = <<0, 0>>
    /\ box = <<0, 0, 0, 0>>
    /\ xyxy = <<0, 0, 0, 0>>

\* ---------------------------------------------------------------- actions
\* The operator presses a key while the loop runs; the event waits in the
\* window's queue until cv2.waitKey takes it.
KeyPress ==
    /\ UNCHANGED geom
    /\ pc \in LoopPcs
    /\ \E k \in Keys \ {NoKey} : key_event' = k
    /\ UNCHANGED <<pc, camera, saved_stone_ids, ret, results, idx,
                   frame_com_desenhos, snapshots, displayed, detected, key,
                   regStart, tick, iteration, failRun, errAt, flaggedPrev, reached, snapCount,
                   init_outcome, calls, scen>>

\* __enter__ -> init_camera (lines 30-48, 125-127).  The camera opens, or
\* does not open, or cv2.VideoCapture raises, or the window set-up raises
\* after the camera was opened; __enter__ drops the returned bool.
InitCamera ==
    /\ UNCHANGED geom
    /\ pc = "enter"
    /\ \E outcome \in {"ok", "not_opened", "open_raised", "setup_raised"} :
          /\ init_outcome' = outcome
          /\ camera' = CASE outcome = "open_raised" -> "None"
                         [] outcome = "not_opened" -> "unopened"
                         [] OTHER -> "opened"
    /\ calls' = Bump(calls, "init_camera")
    /\ pc' = "main"
    /\ UNCHANGED <<saved_stone_ids, key_event, ret, results, idx,
                   frame_com_desenhos, snapshots, displayed, detected, key,
                   regStart, tick, iteration, failRun, errAt, flaggedPrev, reached, snapCount,
                   scen>>

\* main, lines 135-138: process_frame is entered only with an opened camera;
\* otherwise the message is printed and the with block ends.
MainCheck ==
    /\ UNCHANGED geom
    /\ pc = "main"
    /\ IF CameraUsable(camera)
       THEN /\ pc' = "read"
            /\ calls' = Bump(calls, "process_frame")
       ELSE /\ pc' = "cleanup"
            /\ calls' = calls
    /\ UNCHANGED <<camera, saved_stone_ids, key_event, ret, results, idx,
                   frame_com_desenhos, snapshots, displayed, detected, key,
                   regStart, tick, iteration, failRun, errAt, flaggedPrev, reached, snapCount,
                   init_outcome, scen>>

\* Line 70, the top of the while loop: the locals of the iteration are fresh
\* and the observers of the iteration start again.
StartIteration ==
    /\ flaggedPrev' = flaggedPrev \cup FlaggedIds(results)
    /\ results' = NoResults
    /\ idx' = 0
    /\ frame_com_desenhos' = <<>>
    /\ snapshots' = <<>>
    /\ displayed' = FALSE
    /\ detected' = FALSE
    /\ regStart' = saved_stone_ids

\* Lines 72-78: camera.read().  A new iteration starts: its locals are fresh.
\* On ret = False the warning is logged and the loop continues.
ReadFrame ==
    /\ UNCHANGED geom
    /\ pc = "read"
    /\ \E r \in BOOLEAN :
          /\ ret' = r
          /\ pc' = PcAfterRead(r)
          /\ IF r
             THEN UNCHANGED <<tick, iteration, failRun>>
             ELSE /\ tick' = "readfail"
                  /\ iteration' = 1 - iteration
                  /\ failRun' = IF failRun < MaxFailRun THEN failRun + 1 ELSE failRun
    /\ StartIteration
    /\ errAt' = "none"
    /\ UNCHANGED <<camera, saved_stone_ids, key_event, key, reached, snapCount,
                   init_outcome, calls, scen>>

\* Lines 80-91: model.track on the resized frame, the frame copy, and the
\* test of boxes.id.  Without active tracks the for loop is skipped.
Track ==
    /\ UNCHANGED geom
    /\ pc = "track"
    /\ \E res \in DetectorOutputs :
          /\ results' = res
          /\ pc' = PcAfterTrack(res)
          /\ idx' = IF PcAfterTrack(res) = "for" THEN 1 ELSE 0
    /\ detected' = TRUE
    /\ frame_com_desenhos' = <<>>
    /\ UNCHANGED <<camera, saved_stone_ids, key_event, ret, snapshots,
                   displayed, key, regStart, tick, iteration, failRun, errAt, flaggedPrev,
                   reached, snapCount, init_outcome, calls, scen>>

\* Line 93: the for loop goes to the next zipped instance, or ends before
\* line 107.
InstanceDone ==
    /\ IF idx < Len(results.id)
       THEN idx' = idx + 1 /\ pc' = "for"
       ELSE idx' = idx /\ pc' = "show"
    /\ UNCHANGED <<tick, iteration, failRun, errAt, scen>>

\* An exception coming out of save_stone_image would reach the except clause
\* of lines 111-113 before line 105.
InstanceRaised ==
    /\ idx' = idx
    /\ pc' = PcAfterError
    /\ tick' = "error"
    /\ iteration' = 1 - iteration
    /\ failRun' = 0
    /\ errAt' = "save"
    /\ scen' = ScenOff

\* Lines 93-105, one pass of the for loop: the box is drawn on the shared
\* frame copy; a flagged class whose id is not in the registry calls
\* save_stone_image with the frame as drawn so far (the write succeeds or
\* fails inside it, lines 50-66) and then the id is added.
Instance ==
    /\ UNCHANGED geom
    /\ pc = "for"
    /\ LET track_id == results.id[idx]
           label == results.cls[idx]
           drawn == Annotate(frame_com_desenhos, idx, label)
       IN /\ frame_com_desenhos' = drawn
          /\ reached' = IF label \in FlaggedClassSet THEN reached \cup {track_id} ELSE reached
          /\ IF ShouldSave(label, track_id, saved_stone_ids)
             THEN \E written \in BOOLEAN :
                     /\ snapshots' = Append(snapshots,
                                            [track_id |-> track_id, label |-> label,
                                             written |-> written, image |-> SnapshotImage(drawn)])
                     /\ snapCount' = Bump(snapCount, track_id)
                     /\ IF SavePropagates(written)
                        THEN /\ saved_stone_ids' = saved_stone_ids
                             /\ InstanceRaised
                        ELSE /\ saved_stone_ids' =
                                    RegistryAfterSave(saved_stone_ids, track_id, written)
                             /\ InstanceDone
             ELSE /\ UNCHANGED <<snapshots, snapCount, saved_stone_ids>>
                  /\ InstanceDone
    /\ UNCHANGED <<camera, key_event, ret, results, displayed, detected, key,
                   regStart, flaggedPrev, init_outcome, calls>>

\* Line 107: cv2.imshow of the frame copy.
Show ==
    /\ UNCHANGED geom
    /\ pc = "show"
    /\ displayed' = TRUE
    /\ pc' = "poll"
    /\ UNCHANGED <<camera, saved_stone_ids, key_event, ret, results, idx,
                   frame_com_desenhos, snapshots, detected, key, regStart, tick,
                   iteration, failRun, errAt, flaggedPrev, reached, snapCount, init_outcome,
                   calls, scen>>

\* Lines 108-109: cv2.waitKey takes the pending key event; 'q' breaks the
\* loop, process_frame returns and the with block ends.
Poll ==
    /\ UNCHANGED geom
    /\ pc = "poll"
    /\ key' = key_event
    /\ key_event' = NoKey
    /\ IF KeyBreaks(key_event)
       THEN pc' = "cleanup" /\ tick' = "stop"
       ELSE pc' = "read" /\ tick' = "done"
    /\ iteration' = 1 - iteration
    /\ failRun' = 0
    /\ scen' = ScenAfterFrame(scen, results, snapshots, saved_stone_ids)
    /\ UNCHANGED <<camera, saved_stone_ids, ret, results, idx,
                   frame_com_desenhos, snapshots, displayed, detected, regStart,
                   errAt, flaggedPrev, reached, snapCount, init_outcome, calls>>

\* Lines 111-113: an exception raised by the statement the loop is at (the
\* read, the detector, the drawing of the current box, the display, the key
\* poll) is caught and logged and the loop continues; nothing is rolled back.
\* An exception of camera.read() is the whole of its iteration.
ProcessingError ==
    /\ UNCHANGED geom
    /\ pc \in LoopPcs
    /\ pc' = PcAfterError
    /\ tick' = "error"
    /\ iteration' = 1 - iteration
    /\ failRun' = 0
    /\ errAt' = pc
    /\ scen' = ScenOff
    /\ IF pc = "read"
       THEN StartIteration
       ELSE /\ detected' = (detected \/ pc = "track")
            /\ UNCHANGED <<results, idx, frame_com_desenhos, snapshots,
                           displayed, regStart, flaggedPrev>>
    /\ saved_stone_ids' = RegistryAfterError(saved_stone_ids, regStart)
    /\ UNCHANGED <<camera, key_event, ret, key, reached,
                   snapCount, init_outcome, calls>>

\* __exit__ -> cleanup (lines 115-123, 129-130): the camera is released when
\* it is opened, the windows are destroyed; an exception raised by either
\* call is caught and logged.
Cleanup ==
    /\ UNCHANGED geom
    /\ pc = "cleanup"
    /\ IF ReleaseNeeded(camera)
       THEN /\ calls' = Bump(Bump(calls, "cleanup"), "release")
            /\ \E released \in BOOLEAN :
                  camera' = IF released THEN "released" ELSE camera
       ELSE /\ calls' = Bump(calls, "cleanup")
            /\ camera' = camera
    /\ pc' = "stopped"
    /\ UNCHANGED <<saved_stone_ids, key_event, ret, results, idx,
                   frame_com_desenhos, snapshots, displayed, detected, key,
                   regStart, tick, iteration, failRun, errAt, flaggedPrev, reached, snapCount,
                   init_outcome, scen>>

Next ==
    \/ KeyPress
    \/ InitCamera
    \/ MainCheck
    \/ ReadFrame
    \/ Track
    \/ Instance
    \/ Show
    \/ Poll
    \/ ProcessingError
    \/ Cleanup

Spec == Init /\ [][Next]_vars

\* ------------------------------------------- the rescaling on its own
\* A frame of one of the sizes has been read and the detector has returned
\* a box; everything else is as after construction.
InitRescale ==
    /\ pc = "rescale"
    /\ camera = "opened"
    /\ saved_stone_ids = {}
    /\ key_event = NoKey
    /\ ret = TRUE
    /\ results = NoResults
    /\ idx = 0
    /\ frame_com_desenhos = <<>>
    /\ snapshots = <<>>
    /\ displayed = FALSE
    /\ detected = TRUE
    /\ key = NoKey
    /\ regStart = {}
    /\ tick = "none"
    /\ iteration = 0
    /\ failRun = 0
    /\ errAt = "none"
    /\ flaggedPrev = {}
    /\ reached = {}
    /\ snapCount = [t \in TrackIds |-> 0]
    /\ init_outcome = "ok"
    /\ calls = [init_camera |-> 1, process_frame |-> 1, cleanup |-> 0, release |-> 0]
    /\ scen = [on |-> FALSE, log |-> <<>>]
    /\ shape \in FrameShapes
    /\ box \in [1..4 -> CoordValues]
    /\ xyxy = <<0, 0, 0, 0>>

\* Line 94: the four coordinates of the box are rescaled.
Rescale ==
    /\ pc = "rescale"
    /\ xyxy' = ScaleBox(box, shape)
    /\ pc' = "rescaled"
    /\ UNCHANGED <<camera, saved_stone_ids, key_event, ret, results, idx,
                   frame_com_desenhos, snapshots, displayed, detected, key,
                   regStart, tick, iteration, failRun, errAt, flaggedPrev,
                   reached, snapCount, init_outcome, calls, scen, shape, box>>

NextRescale == Rescale

SpecRescale == InitRescale /\ [][NextRescale]_vars

\* ================================================================ claims
\* Ids for which save_stone_image was called in the current iteration, in
\* call order.
SnapshotIds == [k \in 1..Len(snapshots) |-> snapshots[k].track_id]

SnapshotIdSet == {snapshots[k].track_id : k \in 1..Len(snapshots)}

\* The snapshots the dedup rule asks of a frame, from position k of its
\* instance list on, against registry reg: one per flagged instance whose id
\* is not in the registry, in list order.
RECURSIVE ExpectedSnaps(_, _, _)
ExpectedSnaps(res, k, reg) ==
    IF k > Len(res.id) THEN <<>>
    ELSE IF res.cls[k] \in FlaggedClassSet /\ res.id[k] \notin reg
         THEN <<res.id[k]>> \o ExpectedSnaps(res, k + 1, reg \cup {res.id[k]})
         ELSE ExpectedSnaps(res, k + 1, reg)

\* The current iteration handled its whole frame: detector called, every
\* instance drawn, the snapshots and the registry as the dedup rule asks
\* against the registry the iteration started with.
ProcessedNormally ==
    /\ ret /\ detected
    /\ Len(frame_com_desenhos) = Len(results.id)
    /\ SnapshotIds = ExpectedSnaps(results, 1, regStart)
    /\ saved_stone_ids = regStart \cup FlaggedIds(results)

\* C1 as stated: for every track_id the Snapshot Sink is called at most once,
\* and only in the first frame in which the detector reports the id with a
\* flagged class, never in a later frame.
C1_OnlyInFirstFlaggedFrame ==
    /\ \A t \in TrackIds : snapCount[t] <= 1
    /\ \A k \in 1..Len(snapshots) : snapshots[k].track_id \notin flaggedPrev

\* C1 as amended: for every track_id the Snapshot Sink is called at most
\* once, namely in the first frame in which the instance loop reaches the
\* id's instance while its class is flagged, and never for an id that is
\* already in the registry, however often the id comes back flagged.
C1_AtMostOncePerTrack ==
    /\ \A t \in TrackIds : snapCount[t] = IF t \in reached THEN 1 ELSE 0
    /\ \A t \in TrackIds : snapCount[t] > 0 => t \in saved_stone_ids
    /\ \A k \in 1..Len(snapshots) : snapshots[k].track_id \notin regStart
    /\ \A j, k \in 1..Len(snapshots) :
          j # k => snapshots[j].track_id # snapshots[k].track_id

\* C1 witness: an id snapshotted in an earlier frame comes back with a
\* flagged class and its frame is handled without a new snapshot.
C1_Witness ==
    /\ pc = "poll"
    /\ \E k \in 1..Len(results.id) :
          /\ results.cls[k] \in FlaggedClassSet
          /\ results.id[k] \in regStart
          /\ results.id[k] \in flaggedPrev
          /\ results.id[k] \notin SnapshotIdSet
          /\ snapCount[results.id[k]] = 1

\* C2: an instance whose class is not in the Flagged-Class Set never causes a
\* snapshot, and an id never reported with a flagged class is never in the
\* registry, in however many frames it appears.
C2_NonFlaggedNeverSaved ==
    /\ \A k \in 1..Len(snapshots) : snapshots[k].label \in FlaggedClassSet
    /\ \A t \in TrackIds :
          t \notin (flaggedPrev \cup FlaggedIds(results)) =>
              /\ t \notin saved_stone_ids
              /\ snapCount[t] = 0

\* C2 witness: after an earlier frame, a frame with an instance of a label
\* the colour table does not know and one with PODRE has been handled and
\* neither id is in the registry.
C2_Witness ==
    /\ pc = "poll" /\ tick = "done"
    /\ Len(results.id) = 2
    /\ results.cls[1] = "OUTRO" /\ results.cls[2] = "PODRE"
    /\ results.id[1] \notin saved_stone_ids
    /\ results.id[2] \notin saved_stone_ids

\* C3 as stated: an id whose snapshot write failed is not in the registry.
C3_RegistryOnlyAfterWrite ==
    \A k \in 1..Len(snapshots) :
        ~snapshots[k].written => snapshots[k].track_id \notin saved_stone_ids

\* C4: a frame handled without error has one snapshot for each flagged
\* instance whose id was not in the registry, and those ids are in the
\* registry afterwards; the scenario of the four frames gives snapshots at
\* frames 1 and 4 only and the registry {7}, {7}, {7}, {7, 12}.
C4_FlaggedNewIdsSnapshotted ==
    /\ displayed =>
          /\ SnapshotIds = ExpectedSnaps(results, 1, regStart)
          /\ saved_stone_ids = regStart \cup FlaggedIds(results)
          /\ \A t \in FlaggedIds(results) \ regStart :
                Cardinality({k \in 1..Len(snapshots) : snapshots[k].track_id = t}) = 1
    /\ scen.on =>
          \A k \in 1..Len(scen.log) :
              scen.log[k] =
                  << [snaps |-> {7}, reg |-> {7}],
                     [snaps |-> {}, reg |-> {7}],
                     [snaps |-> {}, reg |-> {7}],
                     [snaps |-> {12}, reg |-> {7, 12}] >>[k]

\* C4 witness: the four frames of the scenario have been handled.
C4_Witness ==
    scen.on /\ Len(scen.log) = 4

\* C5: a tick whose read failed leaves the loop at its top in RUNNING with no
\* detector call, no drawing, no snapshot, no display and the registry as it
\* was; the frame read after a run of failures is handled normally against
\* that registry.
C5_FailedReadsDoNothing ==
    /\ (calls.process_frame > 0 /\ ~ret) =>
          /\ pc = "read"
          /\ ~detected /\ ~displayed
          /\ snapshots = <<>> /\ frame_com_desenhos = <<>>
          /\ saved_stone_ids = regStart
    /\ failRun > 0 => pc \in LoopPcs /\ tick = "readfail"
    /\ (failRun > 0 /\ pc = "poll") => ProcessedNormally

\* C5 witness: after two failed reads in a row a frame with a flagged new id
\* and a flagged id of the registry has been handled.
C5_Witness ==
    /\ failRun >= 2 /\ pc = "poll"
    /\ regStart # {}
    /\ snapshots # <<>>
    /\ FlaggedIds(results) \cap regStart # {}

\* C6: when the camera does not open, or opening it raises, process_frame is
\* never called, RUNNING is never entered, there is no detector call, no
\* snapshot and no registry change, and cleanup runs once without releasing.
C6_InitFailureNeverRuns ==
    init_outcome \in {"not_opened", "open_raised"} =>
        /\ calls.process_frame = 0
        /\ pc \notin LoopPcs
        /\ ~detected /\ ~ret /\ ~displayed
        /\ saved_stone_ids = {}
        /\ \A t \in TrackIds : snapCount[t] = 0
        /\ pc = "stopped" => calls.cleanup = 1 /\ calls.release = 0
        /\ pc # "stopped" => calls.cleanup = 0

\* C6 witness: the session stopped after a camera that did not open.
C6_Witness ==
    pc = "stopped" /\ init_outcome = "not_opened" /\ camera = "unopened"

C7_Counts ==
    /\ calls.init_camera <= 1
    /\ calls.cleanup <= 1
    /\ calls.release <= 1
    /\ calls.release = 1 => init_outcome \in {"ok", "setup_raised"}
    /\ pc = "stopped" => calls.cleanup = 1
    /\ pc # "stopped" => calls.cleanup = 0 /\ calls.release = 0

\* C7: on every way to STOPPED the camera is acquired at most once, cleanup
\* runs exactly once, the camera is released at most once and only if it was
\* opened, and nothing happens after STOPPED.
C7_CleanupExactlyOnce ==
    /\ []C7_Counts
    /\ [][pc = "stopped" => UNCHANGED vars]_vars

\* C7 witness: the session stopped by the stop key with the camera released.
C7_Witness ==
    /\ pc = "stopped" /\ tick = "stop"
    /\ camera = "released"
    /\ calls.release = 1 /\ calls.cleanup = 1

\* C8: an exception in a RUNNING iteration leaves the loop in RUNNING at its
\* top with the registry untouched, and the iteration that follows reads a
\* new frame and handles it normally.
C8_ErrorsStayInLoop ==
    /\ [](tick = "error" => pc \in LoopPcs)
    /\ []((tick = "error" /\ pc = "poll") => ProcessedNormally)
    /\ [][(pc \in LoopPcs /\ iteration' # iteration /\ tick' = "error") =>
              /\ pc' = "read"
              /\ saved_stone_ids' = saved_stone_ids
              /\ camera' = camera]_vars

\* C8 witness: the iteration after an exception has handled a frame with a
\* snapshot.
C8_Witness ==
    tick = "error" /\ pc = "poll" /\ snapshots # <<>>

\* C9 as stated: whenever an iteration ends, whatever its outcome, with a
\* stop request pending, the loop leaves RUNNING at the end of that iteration.
C9_StopAtEveryIterationEnd ==
    [][(pc \in LoopPcs /\ iteration' # iteration /\ key_event = KeyQ) =>
           pc' \notin LoopPcs]_vars

\* C10: RUNNING is left only by a polled stop key: a failed read, an
\* exception or a frame without detections keeps the loop going, and STOPPING
\* and STOPPED are reached only by the stop key or by a camera that was not
\* usable after initialisation.
C10_LeavesOnlyByStopKey ==
    /\ tick \in {"readfail", "error", "done"} => pc \in LoopPcs
    /\ pc \in {"cleanup", "stopped"} =>
          \/ /\ tick = "stop" /\ key = KeyQ
             /\ calls.process_frame = 1 /\ displayed
          \/ /\ tick = "none" /\ calls.process_frame = 0
             /\ init_outcome \in {"not_opened", "open_raised"}

\* C10 witness: a frame without detections has been displayed with another
\* key than the stop key and the loop goes on.
C10_Witness ==
    /\ pc = "read" /\ tick = "done"
    /\ key = 97
    /\ displayed /\ Len(results.cls) = 0

\* C11: a write that fails inside save_stone_image does not end the
\* iteration: the for loop goes on with the next instance, and the frame is
\* handled to its end (every instance drawn and tested for its snapshot, the
\* frame displayed, the key poll reached).
C11_SaveFailureNotPropagated ==
    /\ []((pc = "poll" /\ \E k \in 1..Len(snapshots) : ~snapshots[k].written) =>
              (displayed /\ ProcessedNormally))
    /\ [][(/\ pc = "for"
           /\ Len(snapshots') > Len(snapshots)
           /\ ~snapshots'[Len(snapshots')].written) =>
              /\ iteration' = iteration
              /\ tick' = tick
              /\ pc' = IF idx < Len(results.id) THEN "for" ELSE "show"
              /\ idx' = IF idx < Len(results.id) THEN idx + 1 ELSE idx]_vars

\* C11 witness: the write for the first instance failed, the second instance
\* was drawn and snapshotted, and the key poll has been reached.
C11_Witness ==
    /\ pc = "poll" /\ displayed
    /\ Len(results.id) = 2
    /\ Len(frame_com_desenhos) = 2
    /\ Len(snapshots) = 2
    /\ ~snapshots[1].written

\* z is the quotient num / den (den > 0) with its fraction cut off.
IsTruncation(z, num, den) ==
    IF num >= 0
    THEN z >= 0 /\ z * den <= num /\ num < (z + 1) * den
    ELSE z <= 0 /\ z * den >= num /\ num > (z - 1) * den

\* C12: a box of the 640x640 working resolution is mapped to
\* (trunc(x1*W/640), trunc(y1*H/640), trunc(x2*W/640), trunc(y2*H/640)) for a
\* frame of width W and height H, each axis on its own and without clamping;
\* (0, 0, 640, 640) against 1980x1080 gives (0, 0, 1980, 1080).
C12_RescaleTruncatesPerAxis ==
    pc = "rescaled" =>
        /\ IsTruncation(xyxy[1], box[1] * shape[2], CoordDen * 640)
        /\ IsTruncation(xyxy[2], box[2] * shape[1], CoordDen * 640)
        /\ IsTruncation(xyxy[3], box[3] * shape[2], CoordDen * 640)
        /\ IsTruncation(xyxy[4], box[4] * shape[1], CoordDen * 640)
        /\ (box = <<0, 0, 640 * CoordDen, 640 * CoordDen>> /\ shape = <<1080, 1980>>) =>
               xyxy = <<0, 0, 1980, 1080>>
        /\ (box[3] >= 643 * CoordDen => xyxy[3] > shape[2])
        /\ (box[1] < -CoordDen => xyxy[1] < 0)

\* C12 witness: the box (0, 0, 640, 640) has been rescaled against a
\* 1980x1080 frame.
C12_Witness ==
    /\ pc = "rescaled"
    /\ box = <<0, 0, 640 * CoordDen, 640 * CoordDen>>
    /\ shape = <<1080, 1980>>
    /\ xyxy = <<0, 0, 1980, 1080>>

\* C13: the registry starts empty and only grows: it is empty until the
\* loop is entered, and every step of the program leaves it a superset of
\* what it was; no id is ever removed.
C13_RegistryGrowsMonotonically ==
    /\ [](pc \in {"enter", "main"} => saved_stone_ids = {})
    /\ [][saved_stone_ids \subseteq saved_stone_ids']_vars

\* C13 witness: a second id has joined the registry in a later iteration
\* than the first, which is still there.
C13_Witness ==
    /\ saved_stone_ids = {7, 12}
    /\ regStart # {}
    /\ regStart # saved_stone_ids
    /\ pc = "poll"

\* C14: a frame whose detector output has no active tracks (boxes.id is
\* None) gets no instance processing, whatever boxes and classes it holds:
\* nothing is drawn on the copy, no snapshot is taken and the registry stays
\* as it was at the start of the iteration; the detector step is followed by
\* the display of the unannotated copy and that by the stop check.
C14_NoTracksSkipsInstances ==
    /\ []((pc \in {"show", "poll"} /\ detected /\ ~results.has_id) =>
              /\ frame_com_desenhos = <<>>
              /\ snapshots = <<>>
              /\ saved_stone_ids = regStart
              /\ (pc = "poll" => displayed))
    /\ [][(pc = "track" /\ detected' /\ ~results'.has_id /\ iteration' = iteration) =>
              pc' = "show"]_vars
    /\ [][(pc = "show" /\ pc' # pc /\ ~results.has_id /\ iteration' = iteration) =>
              (pc' = "poll" /\ displayed')]_vars

\* C14 witness: the frame displayed and awaiting the stop check had two
\* boxes of flagged classes and no active track.
C14_Witness ==
    /\ pc = "poll" /\ displayed
    /\ ~results.has_id
    /\ results.cls = <<"PEDRA", "BATATA-COM-PEDRA">>
    /\ frame_com_desenhos = <<>>

\* The drawing lines 96-101 make for the instance at position j of res.
DrawingOf(res, j) ==
    [pos |-> j, label |-> res.cls[j],
     color |-> IF res.cls[j] \in DOMAIN colors THEN colors[res.cls[j]] ELSE <<0, 255, 0>>]

\* The position of track id t in the instance list of res.
PositionOf(res, t) ==
    CHOOSE j \in 1..Len(res.id) : res.id[j] = t

\* C15: a frame with k distinct flagged instances not yet in the registry
\* yields k snapshots and k insertions, and the snapshot of an instance
\* shows the boxes of exactly the instances up to its own position, in list
\* order, and none of the later ones.
C15_SnapshotPerNewInstanceWithPrefix ==
    /\ \A k \in 1..Len(snapshots) :
          /\ snapshots[k].track_id \in {results.id[j] : j \in 1..Len(results.id)}
          /\ snapshots[k].image =
                 [j \in 1..PositionOf(results, snapshots[k].track_id) |-> DrawingOf(results, j)]
    /\ (displayed /\ results.has_id) =>
          /\ Len(snapshots) = Cardinality(FlaggedIds(results) \ regStart)
          /\ SnapshotIdSet = FlaggedIds(results) \ regStart
          /\ Cardinality(saved_stone_ids \ regStart) = Cardinality(FlaggedIds(results) \ regStart)
          /\ saved_stone_ids = regStart \cup FlaggedIds(results)

\* C15 witness: a displayed frame brought two new flagged instances; the
\* first snapshot shows one box and the second shows both.
C15_Witness ==
    /\ pc = "poll" /\ displayed
    /\ regStart = {}
    /\ Len(snapshots) = 2
    /\ Len(snapshots[1].image) = 1
    /\ Len(snapshots[2].image) = 2
    /\ saved_stone_ids = {7, 12}

\* C16: annotation does not depend on the dedup state: on a displayed frame
\* with active tracks every instance of the list has its box drawn, in list
\* order, whether its class is flagged or not and whether its id is in the
\* registry or not.
C16_EveryInstanceAnnotated ==
    (displayed /\ results.has_id) =>
        frame_com_desenhos = [j \in 1..Len(results.id) |-> DrawingOf(results, j)]

\* C16 witness: the displayed frame holds an instance of a class that is not
\* flagged and a flagged one whose id was in the registry already; both are
\* drawn and no snapshot was taken.
C16_Witness ==
    /\ pc = "poll" /\ displayed
    /\ results.has_id
    /\ results.cls = <<"OK", "PEDRA">>
    /\ results.id[2] \in regStart
    /\ snapshots = <<>>
    /\ Len(frame_com_desenhos) = 2

\* The ids save_stone_image has been called for since the session began.
InvokedIds == {t \in TrackIds : snapCount[t] > 0}

\* C17: the registry is exactly the set of ids the snapshot sink has been
\* invoked for in the session, at every iteration boundary and at every
\* point in between, read failures and mid-frame errors included: the step
\* that invokes the sink for an id inserts that id, and no step inserts an
\* id without invoking the sink for it.
C17_RegistryIsInvokedIds ==
    /\ [](saved_stone_ids = InvokedIds)
    /\ [][\A t \in TrackIds :
             (t \in saved_stone_ids' \ saved_stone_ids) <=> (snapCount'[t] > snapCount[t])]_vars
    /\ [][Len(snapshots') > Len(snapshots) =>
             snapshots'[Len(snapshots')].track_id \in saved_stone_ids' \ saved_stone_ids]_vars

\* C17 witness: the iteration boundary after an error in the middle of a
\* frame whose first instance had its snapshot attempted, without success.
C17_Witness ==
    /\ pc = "read" /\ tick = "error" /\ errAt = "for"
    /\ Len(snapshots) = 1
    /\ ~snapshots[1].written
    /\ saved_stone_ids = regStart \cup {snapshots[1].track_id}
    /\ regStart # {}

\* The ids of the new flagged instances among the first n of the list.
NewFlaggedAmongFirst(n) ==
    {results.id[j] : j \in {i \in 1..n : /\ results.cls[i] \in FlaggedClassSet
                                         /\ results.id[i] \notin regStart}}

\* C18: an error raised while the instance at position idx of the list is
\* being processed ends the iteration without rollback: the snapshots and
\* the insertions of the instances before it are kept, the instances from
\* it on are neither drawn nor snapshotted, the frame is not displayed, and
\* a flagged instance skipped this way is not in the registry, so that the
\* test of line 103 still passes for it in a later frame.
C18_MidListErrorKeepsPrefix ==
    /\ []((pc = "read" /\ tick = "error" /\ errAt = "for") =>
              /\ ~displayed
              /\ frame_com_desenhos = [j \in 1..(idx - 1) |-> DrawingOf(results, j)]
              /\ SnapshotIdSet = NewFlaggedAmongFirst(idx - 1)
              /\ Len(snapshots) = Cardinality(NewFlaggedAmongFirst(idx - 1))
              /\ saved_stone_ids = regStart \cup NewFlaggedAmongFirst(idx - 1)
              /\ \A j \in idx..Len(results.id) :
                    (results.cls[j] \in FlaggedClassSet /\ results.id[j] \notin regStart) =>
                        (results.id[j] \notin saved_stone_ids /\ snapCount[results.id[j]] = 0))
    /\ [][(pc = "for" /\ tick' = "error" /\ iteration' # iteration) =>
              /\ pc' = "read"
              /\ snapshots' = snapshots
              /\ saved_stone_ids' = saved_stone_ids
              /\ frame_com_desenhos' = frame_com_desenhos
              /\ ~displayed']_vars

\* C18 witness: the error came at the second instance of a frame whose
\* first instance had been snapshotted and inserted; the second is flagged
\* and its id is not in the registry.
C18_Witness ==
    /\ pc = "read" /\ tick = "error" /\ errAt = "for"
    /\ idx = 2
    /\ Len(snapshots) = 1
    /\ snapshots[1].written
    /\ results.id[1] \in saved_stone_ids
    /\ results.cls[2] = "PEDRA-NA-BATATA"
    /\ results.id[2] \notin saved_stone_ids

====
